---------------------------- MODULE Spec2Model ----------------------------
(***************************************************************************)
(* Suffix-array text search tool: build_index.py, search_index.py,        *)
(* sort.py and util.py.                                                    *)
(*                                                                         *)
(* A text file is a sequence of byte values, an index file a sequence of   *)
(* unsigned integers (text offsets).  Python's 0-based indices are kept in *)
(* every operator; At/Slice translate them to TLA+ sequences.              *)
(***************************************************************************)
EXTENDS Integers, Sequences, FiniteSets, TLC

VARIABLES text, index, last

vars == <<text, index, last>>

(***************************************************************************)
(* Bounds of the model.                                                    *)
(***************************************************************************)
\* longest text whose bytes are enumerated freely
MaxTextLen == 3
\* length of the periodic texts (longer than COMPARE_BUFFER_SIZE, so that
\* distinct offsets can share their bounded key)
LongTextLen == 104
\* longest index file present before any build
MaxIndexLen == 3
\* longest search key
MaxKeyLen == 2
\* largest --num-matches
MaxMatches == 2
\* largest array of the sorting tests (sort.py --test)
MaxSize == 5
\* a loop runs for fewer than 2 ^ (LoopDepth + 1) iterations
LoopDepth == 8

(***************************************************************************)
(* Program constants.                                                      *)
(***************************************************************************)
COMPARE_BUFFER_SIZE == 100
elemsize == 4
SORTING_CUTOFF == 10000

\* Python's None as the value of a function that returns an index: no
\* valid result of a pivot selector is negative
None == -1

(***************************************************************************)
(* Evaluation: a value computed once, and Python's loops.                  *)
(***************************************************************************)
\* F applied to value, value being computed once
with(value, F(_)) == CHOOSE result \in { F(v) : v \in {value} } : TRUE

RECURSIVE while_run(_, _, _, _)
\* at most 2 ^ k iterations of: while cond(state): state = body(state)
while_run(cond(_), body(_), state0, k) ==
    with(state0, LAMBDA state :
        IF ~cond(state) THEN state
        ELSE IF k = 0 THEN body(state)
        ELSE while_run(cond, body, while_run(cond, body, state, k - 1), k - 1))

RECURSIVE while_from(_, _, _, _)
\* the loop run in stretches of 2 ^ k, 2 ^ (k + 1), ... iterations
while_from(cond(_), body(_), state0, k) ==
    with(while_run(cond, body, state0, k), LAMBDA state :
        IF ~cond(state) \/ k >= LoopDepth THEN state
        ELSE while_from(cond, body, state, k + 1))

\* while cond(state): state = body(state)
while_loop(cond(_), body(_), state) == while_from(cond, body, state, 0)

\* for i in range(lo, hi): state = body(i, state)
for_loop(lo, hi, body(_, _), state) ==
    while_loop(LAMBDA it : it.i < hi,
               LAMBDA it : [i |-> it.i + 1, state |-> body(it.i, it.state)],
               [i |-> lo, state |-> state]).state

(***************************************************************************)
(* Python sequences.                                                       *)
(***************************************************************************)
Min(a, b) == IF a <= b THEN a ELSE b
Max(a, b) == IF a >= b THEN a ELSE b

\* array[i], a negative i counting from the end
At(array, i) == IF i < 0 THEN array[Len(array) + i + 1] ELSE array[i + 1]

\* s[lo:hi] for 0 <= lo, clipped to the end of s
Slice(s, lo, hi) == SubSeq(s, lo + 1, Min(hi, Len(s)))

\* the sequence with the elements of the function f on 1..n
AsSeq(f) == SubSeq(f, 1, Len(f))

\* array[i], array[j] = array[j], array[i]
swap(array, i, j) ==
    LET n == Len(array)
        pi == IF i < 0 THEN n + i + 1 ELSE i + 1
        pj == IF j < 0 THEN n + j + 1 ELSE j + 1
        a == Min(pi, pj)
        b == Max(pi, pj)
    IN  IF a = b THEN array
        ELSE SubSeq(array, 1, a - 1) \o <<array[b]>> \o SubSeq(array, a + 1, b - 1)
             \o <<array[a]>> \o SubSeq(array, b + 1, n)

\* the array between the two assignments of the swap: array[i] holds what
\* array[j] held, array[j] is still to be written (0 <= i, j)
half_swap(array, i, j) == [array EXCEPT ![i + 1] = array[j + 1]]

\* the arrays the two assignments of the swap leave, one after the other
swap_writes(array, i, j) == <<half_swap(array, i, j), swap(array, i, j)>>

\* bytes.isalnum() of one byte: ASCII digits and letters
isalnum(b) == (b \in 48..57) \/ (b \in 65..90) \/ (b \in 97..122)

RECURSIVE first_difference(_, _, _, _)
\* the first place where a and b differ, given that they agree on their
\* first lo places and differ within their first hi places
first_difference(a, b, lo, hi) ==
    IF hi - lo = 1 THEN hi
    ELSE with((lo + hi) \div 2, LAMBDA mid :
            IF SubSeq(a, lo + 1, mid) = SubSeq(b, lo + 1, mid)
            THEN first_difference(a, b, mid, hi)
            ELSE first_difference(a, b, lo, mid))

\* a < b on bytes objects: lexicographic, a strict prefix first
bytes_lt(a, b) ==
    with(<<a, b>>, LAMBDA p :
        LET n == Min(Len(p[1]), Len(p[2]))
        IN  IF SubSeq(p[1], 1, n) = SubSeq(p[2], 1, n) THEN Len(p[1]) < Len(p[2])
            ELSE with(first_difference(p[1], p[2], 0, n),
                      LAMBDA i : p[1][i] < p[2][i]))

(***************************************************************************)
(* Sort keys.  A key is a record naming the key function; key_lt, key_gt,  *)
(* key_le, key_ge are the comparisons key(x) < key(y), ... of two array    *)
(* elements.                                                               *)
(***************************************************************************)
\* util.ComparableWithCounter: compares as the wrapped value
ComparableWithCounter == [kind |-> "counter"]

\* the bounded key: text[pos:pos+COMPARE_BUFFER_SIZE]
take_prefix(t) == [kind |-> "prefix", text |-> t]

prefix_key(t, pos) == Slice(t, pos, pos + COMPARE_BUFFER_SIZE)

\* the comparison function returns -1, 0 or 1; Forever stands for a call
\* that never returns
Forever == 2

RECURSIVE exact_loop(_, _, _)
\* the comparison that returns after the first pair of buffers
exact_loop_first_buffers(t, pos1, pos2) ==
    IF bytes_lt(Slice(t, pos1, pos1 + COMPARE_BUFFER_SIZE),
                Slice(t, pos2, pos2 + COMPARE_BUFFER_SIZE))
    THEN -1 ELSE 1

\* the while True loop of the exact comparison; once both positions are at
\* or past the end of the text both buffers are empty in every further
\* round, and the loop never ends
exact_loop(t, pos1, pos2) ==
    with(<<Slice(t, pos1, pos1 + COMPARE_BUFFER_SIZE),
           Slice(t, pos2, pos2 + COMPARE_BUFFER_SIZE)>>, LAMBDA bytes :
        IF bytes[1] # bytes[2]
        THEN (IF bytes_lt(bytes[1], bytes[2]) THEN -1 ELSE 1)
        ELSE IF pos1 >= Len(t) /\ pos2 >= Len(t) THEN Forever
        ELSE exact_loop(t, pos1 + COMPARE_BUFFER_SIZE, pos2 + COMPARE_BUFFER_SIZE))

\* the comparison function inside exact_compare
exact_key(t, pos1, pos2) == IF pos1 = pos2 THEN 0 ELSE exact_loop(t, pos1, pos2)

\* the exact key: cmp_to_key of exact_key
exact_compare(t) == [kind |-> "exact", text |-> t]

key_lt(key, x, y) ==
    CASE key.kind = "counter" -> x < y
      [] key.kind = "prefix" -> bytes_lt(prefix_key(key.text, x), prefix_key(key.text, y))
      [] key.kind = "exact" -> exact_key(key.text, x, y) < 0

key_gt(key, x, y) ==
    CASE key.kind = "counter" -> x > y
      [] key.kind = "prefix" -> bytes_lt(prefix_key(key.text, y), prefix_key(key.text, x))
      [] key.kind = "exact" -> exact_key(key.text, x, y) > 0

key_le(key, x, y) ==
    CASE key.kind = "counter" -> x <= y
      [] key.kind = "prefix" -> ~bytes_lt(prefix_key(key.text, y), prefix_key(key.text, x))
      [] key.kind = "exact" -> exact_key(key.text, x, y) <= 0

key_ge(key, x, y) ==
    CASE key.kind = "counter" -> x >= y
      [] key.kind = "prefix" -> ~bytes_lt(prefix_key(key.text, x), prefix_key(key.text, y))
      [] key.kind = "exact" -> exact_key(key.text, x, y) >= 0

(***************************************************************************)
(* sort.py: insertion sort.                                                *)
(***************************************************************************)
\* the while loop at j stopping at j > 0: no element moves to position 0
insertion_inner_stops_early(array, j, key) ==
    while_loop(LAMBDA r : key_gt(key, At(r.array, r.j), At(r.array, r.j + 1))
                          /\ r.j > 0,
               LAMBDA r : [array |-> swap(r.array, r.j, r.j + 1), j |-> r.j - 1],
               [array |-> array, j |-> j]).array

\* the while loop at j: the comparison is evaluated before j >= 0, so with
\* j = -1 it reads array[-1], the last element
insertion_inner(array, j, key) ==
    while_loop(LAMBDA r : key_gt(key, At(r.array, r.j), At(r.array, r.j + 1))
                          /\ r.j >= 0,
               LAMBDA r : [array |-> swap(r.array, r.j, r.j + 1), j |-> r.j - 1],
               [array |-> array, j |-> j]).array

\* insertion_sort whose outer loop ends one element before the last
insertion_sort_one_short(array, key) ==
    for_loop(0, Len(array) - 1, LAMBDA n, acc : insertion_inner(acc, n - 1, key), array)

insertion_sort(array, key) ==
    for_loop(0, Len(array), LAMBDA n, acc : insertion_inner(acc, n - 1, key), array)

\* the while loop at j, with the arrays its assignments leave added to
\* writes
insertion_inner_writes(array, j, key, writes) ==
    while_loop(LAMBDA r : key_gt(key, At(r.array, r.j), At(r.array, r.j + 1))
                          /\ r.j >= 0,
               LAMBDA r : [array |-> swap(r.array, r.j, r.j + 1), j |-> r.j - 1,
                           writes |-> r.writes \o swap_writes(r.array, r.j, r.j + 1)],
               [array |-> array, j |-> j, writes |-> writes]).writes

\* the arrays insertion_sort leaves as it goes, one for each assignment to
\* an element, in order
insertion_sort_writes(array, key) ==
    for_loop(0, Len(array),
             LAMBDA n, acc : insertion_inner_writes(
                 IF acc = <<>> THEN array ELSE acc[Len(acc)], n - 1, key, acc),
             <<>>)

(***************************************************************************)
(* sort.py: quicksort.  random_pivot makes the result a set of arrays, one *)
(* for each way the draws can fall.                                        *)
(***************************************************************************)
\* x placed into the sorted sequence s after every element whose key is
\* not greater than its own
sorted_insert(s, x, key) ==
    with(Cardinality({ k \in 1..Len(s) : ~key_lt(key, x, s[k]) }), LAMBDA p :
        SubSeq(s, 1, p) \o <<x>> \o SubSeq(s, p + 1, Len(s)))

\* Python's sorted(s, key=key): a stable sort that compares keys with <
sorted(s, key) ==
    for_loop(0, Len(s), LAMBDA n, acc : sorted_insert(acc, At(s, n), key), <<>>)

\* the arrays builtin_timsort leaves as it copies the sorted values back,
\* one for each assignment to an element, in order
builtin_timsort_writes(array, lo, hi, key) ==
    with(sorted(Slice(array, lo, hi), key), LAMBDA sorted_array :
        AsSeq([n \in 1..Len(sorted_array) |->
                 SubSeq(array, 1, lo) \o SubSeq(sorted_array, 1, n)
                 \o SubSeq(array, lo + n + 1, Len(array))]))

builtin_timsort(array, lo, hi, key) ==
    with(sorted(Slice(array, lo, hi), key), LAMBDA sorted_array :
        SubSeq(array, 1, lo) \o sorted_array \o SubSeq(array, hi + 1, Len(array)))

take_first_pivot(array, lo, hi, key) == lo

\* random.randrange(lo, hi): any index of the subrange
random_pivot(array, lo, hi, key) == lo..(hi - 1)

\* median_of_three with >= in place of <= in its first test: the first
\* position is also returned when its key is the largest of the three
median_of_three_first_test_wrong(array, lo, hi, key) ==
    LET low == At(array, lo)
        high == At(array, hi - 1)
        median == At(array, (hi - 1 + lo) \div 2)
    IN  IF \/ key_ge(key, low, high) /\ key_ge(key, low, median)
           \/ key_le(key, low, high) /\ key_ge(key, low, median)
        THEN lo
        ELSE IF \/ key_ge(key, median, high) /\ key_le(key, median, low)
                \/ key_le(key, median, high) /\ key_ge(key, median, low)
        THEN (lo + hi - 1) \div 2
        ELSE IF \/ key_ge(key, high, low) /\ key_le(key, high, median)
                \/ key_le(key, high, low) /\ key_ge(key, high, median)
        THEN hi - 1
        ELSE None

median_of_three(array, lo, hi, key) ==
    LET low == At(array, lo)
        high == At(array, hi - 1)
        median == At(array, (hi - 1 + lo) \div 2)
    IN  IF \/ key_ge(key, low, high) /\ key_le(key, low, median)
           \/ key_le(key, low, high) /\ key_ge(key, low, median)
        THEN lo
        ELSE IF \/ key_ge(key, median, high) /\ key_le(key, median, low)
                \/ key_le(key, median, high) /\ key_ge(key, median, low)
        THEN (lo + hi - 1) \div 2
        ELSE IF \/ key_ge(key, high, low) /\ key_le(key, high, median)
                \/ key_le(key, high, low) /\ key_ge(key, high, median)
        THEN hi - 1
        ELSE None

PivotSelectors == {"take_first_pivot", "random_pivot", "median_of_three"}

\* the indices a pivot selector may return
pivotselect(pivotselector, array, lo, hi, key) ==
    CASE pivotselector = "take_first_pivot" -> {take_first_pivot(array, lo, hi, key)}
      [] pivotselector = "random_pivot" -> random_pivot(array, lo, hi, key)
      [] pivotselector = "median_of_three" -> {median_of_three(array, lo, hi, key)}

\* while lo <= hi and key(array[lo]) < key(pivot_value): lo += 1
scan_lo(array, lo, hi, key, pv) ==
    while_loop(LAMBDA l : l <= hi /\ key_lt(key, At(array, l), pv),
               LAMBDA l : l + 1, lo)

\* while lo <= hi and key(array[hi]) > key(pivot_value): hi -= 1
scan_hi(array, lo, hi, key, pv) ==
    while_loop(LAMBDA h : lo <= h /\ key_gt(key, At(array, h), pv),
               LAMBDA h : h - 1, hi)

\* one round of the loop that steps over the pair it stopped at without
\* swapping it
partition_round_without_swap(s, key, pv) ==
    with(scan_lo(s.array, s.lo, s.hi, key, pv), LAMBDA lo1 :
    with(scan_hi(s.array, lo1, s.hi, key, pv), LAMBDA hi1 :
        IF lo1 > hi1
        THEN [array |-> s.array, lo |-> lo1, hi |-> hi1, break |-> TRUE]
        ELSE [array |-> s.array, lo |-> lo1 + 1, hi |-> hi1 - 1, break |-> FALSE]))

\* one round of the while True loop of partition; s holds the array, the
\* scan pointers lo and hi, and whether the loop has reached its break
partition_round(s, key, pv) ==
    with(scan_lo(s.array, s.lo, s.hi, key, pv), LAMBDA lo1 :
    with(scan_hi(s.array, lo1, s.hi, key, pv), LAMBDA hi1 :
        IF lo1 > hi1
        THEN [array |-> s.array, lo |-> lo1, hi |-> hi1, break |-> TRUE]
        ELSE [array |-> swap(s.array, lo1, hi1), lo |-> lo1 + 1, hi |-> hi1 - 1,
              break |-> FALSE]))

\* partition returning the value of its pointer lo in place of hi
partition_around_returns_lo(array, lo, hi, key, chosen) ==
    with(swap(array, lo, chosen), LAMBDA swapped :
    with(At(swapped, lo), LAMBDA pivot_value :
    with(while_loop(LAMBDA r : ~r.break,
                    LAMBDA r : partition_round(r, key, pivot_value),
                    [array |-> swapped, lo |-> lo + 1, hi |-> hi - 1,
                     break |-> FALSE]), LAMBDA final :
        [array |-> swap(final.array, lo, final.hi), pivot |-> final.lo,
         chosen |-> chosen, lo |-> final.lo, hi |-> final.hi])))

\* partition once the selector has returned the index chosen: the array
\* left, the position returned, the index that was chosen, and the values
\* of the scan pointers lo and hi when the loop is left
partition_around(array, lo, hi, key, chosen) ==
    with(swap(array, lo, chosen), LAMBDA swapped :
    with(At(swapped, lo), LAMBDA pivot_value :
    with(while_loop(LAMBDA r : ~r.break,
                    LAMBDA r : partition_round(r, key, pivot_value),
                    [array |-> swapped, lo |-> lo + 1, hi |-> hi - 1,
                     break |-> FALSE]), LAMBDA final :
        [array |-> swap(final.array, lo, final.hi), pivot |-> final.hi,
         chosen |-> chosen, lo |-> final.lo, hi |-> final.hi])))

\* the arrays a round of the loop of partition leaves: a round that does not
\* break has swapped the pair below the pointers it ends with
round_writes(before, after) ==
    IF after.break THEN <<>>
    ELSE swap_writes(before.array, after.lo - 1, after.hi + 1)

\* the arrays partition leaves as it goes, one for each assignment to an
\* element, in order
partition_writes(array, lo, hi, key, chosen) ==
    with(swap(array, lo, chosen), LAMBDA swapped :
    with(At(swapped, lo), LAMBDA pivot_value :
    with(while_loop(LAMBDA r : ~r.s.break,
                    LAMBDA r : with(partition_round(r.s, key, pivot_value),
                                    LAMBDA next :
                                        [s |-> next,
                                         writes |-> r.writes \o round_writes(r.s, next)]),
                    [s |-> [array |-> swapped, lo |-> lo + 1, hi |-> hi - 1,
                            break |-> FALSE],
                     writes |-> swap_writes(array, lo, chosen)]), LAMBDA final :
        final.writes \o swap_writes(final.s.array, lo, final.s.hi))))

\* the positions at which a round of the loop of partition reads the array
\* through its scan pointers: array[lo] is read while lo <= hi, then
\* array[hi] while lo <= hi, up to the pair the round stops at
round_reads(before, after) ==
    with(IF after.break THEN <<after.lo, after.hi>>
         ELSE <<after.lo - 1, after.hi + 1>>, LAMBDA stop :
        (before.lo..Min(stop[1], before.hi)) \cup (Max(stop[2], stop[1])..before.hi))

\* the positions at which partition reads the array through its scan
\* pointers lo and hi
partition_reads(array, lo, hi, key, chosen) ==
    with(swap(array, lo, chosen), LAMBDA swapped :
    with(At(swapped, lo), LAMBDA pivot_value :
    with(while_loop(LAMBDA r : ~r.s.break,
                    LAMBDA r : with(partition_round(r.s, key, pivot_value),
                                    LAMBDA round :
                                        [s |-> round,
                                         reads |-> r.reads \cup round_reads(r.s, round)]),
                    [s |-> [array |-> swapped, lo |-> lo + 1, hi |-> hi - 1,
                            break |-> FALSE],
                     reads |-> {}]), LAMBDA final :
        final.reads)))

\* partition(array, lo, hi, key, pivotselector): the possible results
partition(array, lo, hi, key, pivotselector) ==
    { partition_around(array, lo, hi, key, chosen) :
        chosen \in pivotselect(pivotselector, array, lo, hi, key) }

RECURSIVE quicksort_subarray(_, _, _, _, _, _)
\* quicksort_subarray without the recursive call on the right part
quicksort_subarray_left_only(array, lo, hi, key, pivotselector, cutoff) ==
    LET size == hi - lo
    IN  IF size = 0 THEN {array}
        ELSE IF cutoff >= size THEN {builtin_timsort(array, lo, hi, key)}
        ELSE UNION { quicksort_subarray(r.array, lo, r.pivot, key,
                                        pivotselector, cutoff) :
                     r \in partition(array, lo, hi, key, pivotselector) }

quicksort_subarray(array, lo, hi, key, pivotselector, cutoff) ==
    LET size == hi - lo
    IN  IF size = 0 THEN {array}
        ELSE IF cutoff >= size THEN {builtin_timsort(array, lo, hi, key)}
        ELSE UNION { UNION { quicksort_subarray(left, r.pivot + 1, hi, key,
                                                pivotselector, cutoff) :
                             left \in quicksort_subarray(r.array, lo, r.pivot, key,
                                                         pivotselector, cutoff) } :
                     r \in partition(array, lo, hi, key, pivotselector) }

\* quicksort(array, key, pivotselector, cutoff): the possible final arrays
quicksort(array, key, pivotselector, cutoff) ==
    quicksort_subarray(array, 0, Len(array), key, pivotselector, cutoff)

\* a call of builtin_timsort or of partition: the array it is given, the
\* subrange [lo, hi) and, for partition, the index the selector chose, the
\* position returned and the values of the scan pointers at the end
Call(call, array, lo, hi, chosen, pivot, lo_end, hi_end) ==
    [call |-> call, array |-> array, lo |-> lo, hi |-> hi, chosen |-> chosen,
     pivot |-> pivot, lo_end |-> lo_end, hi_end |-> hi_end]

RECURSIVE quicksort_runs(_, _, _, _, _, _, _)
\* quicksort_subarray with the calls of builtin_timsort and of partition it
\* makes added to calls: the possible outcomes, each the final array with
\* the calls made
quicksort_runs(array, lo, hi, key, pivotselector, cutoff, calls) ==
    LET size == hi - lo
    IN  IF size = 0 THEN {[array |-> array, calls |-> calls]}
        ELSE IF cutoff >= size
        THEN {[array |-> builtin_timsort(array, lo, hi, key),
               calls |-> calls \cup {Call("builtin_timsort", array, lo, hi,
                                          None, None, None, None)}]}
        ELSE UNION { UNION { quicksort_runs(left.array, r.pivot + 1, hi, key,
                                            pivotselector, cutoff, left.calls) :
                             left \in quicksort_runs(
                                 r.array, lo, r.pivot, key, pivotselector, cutoff,
                                 calls \cup {Call("partition", array, lo, hi, r.chosen,
                                                  r.pivot, r.lo, r.hi)}) } :
                     r \in partition(array, lo, hi, key, pivotselector) }

\* the calls of builtin_timsort and of partition that a call of quicksort
\* can make
quicksort_calls(array, key, pivotselector, cutoff) ==
    UNION { run.calls : run \in quicksort_runs(array, 0, Len(array), key,
                                               pivotselector, cutoff, {}) }

\* the arrays that a call of builtin_timsort or of partition leaves as it
\* goes, one for each assignment to an element
call_writes(c, key) ==
    with(IF c.call = "partition"
         THEN partition_writes(c.array, c.lo, c.hi, key, c.chosen)
         ELSE builtin_timsort_writes(c.array, c.lo, c.hi, key), LAMBDA writes :
        { writes[n] : n \in 1..Len(writes) })

(***************************************************************************)
(* util.py: the index file.  A file is [exists, data]: data are its bytes. *)
(* DiskIntArrayBuilder.append writes each integer as elemsize bytes and    *)
(* DiskIntArray reads them back through a memoryview cast to 'I'; both use *)
(* the platform's byte order (little-endian here).                         *)
(***************************************************************************)
NoFile == [exists |-> FALSE, data |-> <<>>]

File(bytes) == [exists |-> TRUE, data |-> bytes]

\* value.to_bytes(elemsize, byteorder) is defined when the value fits
fits(value) == value \div (256 ^ (elemsize - 1)) < 256

to_bytes(value) == AsSeq([k \in 1..elemsize |-> (value \div (256 ^ (k - 1))) % 256])

RECURSIVE from_bytes(_)
from_bytes(b) ==
    IF b = <<>> THEN 0 ELSE b[1] + 256 * from_bytes(SubSeq(b, 2, Len(b)))

\* memoryview(...).cast('I'): the integers of a file
cast(bytes) ==
    AsSeq([i \in 1..(Len(bytes) \div elemsize) |->
            from_bytes(SubSeq(bytes, elemsize * (i - 1) + 1, elemsize * i))])

\* the bytes behind a memoryview holding array
uncast(array) ==
    AsSeq([k \in 1..(elemsize * Len(array)) |->
            to_bytes(array[((k - 1) \div elemsize) + 1])[((k - 1) % elemsize) + 1]])

\* DiskBytesArray(path): mmap refuses an empty file
DiskBytesArray(t) == IF Len(t) = 0 THEN "ValueError" ELSE ""

\* DiskIntArray(path): open(path, 'r+b') needs the file, mmap refuses an
\* empty one, and the memoryview cannot be cast to 'I' when the size of the
\* file is not a multiple of elemsize
DiskIntArray(ix) ==
    IF ~ix.exists THEN "FileNotFoundError"
    ELSE IF Len(ix.data) = 0 THEN "ValueError"
    ELSE IF Len(ix.data) % elemsize # 0 THEN "TypeError"
    ELSE ""

\* DiskIntArrayBuilder.append on the bytes written so far
append(w, value) ==
    IF w.raised # "" THEN w
    ELSE IF ~fits(value) THEN [w EXCEPT !.raised = "OverflowError"]
    ELSE [w EXCEPT !.data = w.data \o to_bytes(value)]

(***************************************************************************)
(* build_index.py                                                          *)
(***************************************************************************)
\* the loop body appending at every alphanumeric byte, whatever came before
collect_step_ignores_previous(t, i, s) ==
    [previous_alnum |-> isalnum(At(t, i)),
     w |-> IF isalnum(At(t, i)) THEN append(s.w, i) ELSE s.w]

\* the body of the for loop of collect_corpus_positions at byte i; s holds
\* previous.isalnum() and the builder
collect_step(t, i, s) ==
    [previous_alnum |-> isalnum(At(t, i)),
     w |-> IF isalnum(At(t, i)) /\ ~s.previous_alnum THEN append(s.w, i) ELSE s.w]

\* collect_corpus_positions with the index file opened for appending: what
\* the file held stays in front of what is collected
collect_corpus_positions_appends(t, ix) ==
    IF DiskBytesArray(t) # "" THEN [index |-> ix, raised |-> DiskBytesArray(t)]
    ELSE with(for_loop(0, Len(t), LAMBDA n, acc : collect_step(t, n, acc),
                       [previous_alnum |-> FALSE,
                        w |-> [data |-> ix.data, raised |-> ""]]), LAMBDA final :
            [index |-> File(final.w.data), raised |-> final.w.raised])

\* collect_corpus_positions(textfile, indexfile): the index file it leaves
\* and the exception it raises.  DiskIntArrayBuilder opens the index file
\* with 'w+b': whatever the file held is gone
collect_corpus_positions(t, ix) ==
    IF DiskBytesArray(t) # "" THEN [index |-> ix, raised |-> DiskBytesArray(t)]
    ELSE with(for_loop(0, Len(t), LAMBDA n, acc : collect_step(t, n, acc),
                       [previous_alnum |-> FALSE,
                        w |-> [data |-> <<>>, raised |-> ""]]), LAMBDA final :
            [index |-> File(final.w.data), raised |-> final.w.raised])

\* sort_suffix_array(textfile, indexfile, cutoff); cutoff is not passed on
\* to quicksort, whose own default, 0, applies.  calls are the calls the
\* quicksort pass makes
sort_suffix_array(t, ix, cutoff) ==
    IF DiskBytesArray(t) # ""
    THEN [index |-> ix, raised |-> DiskBytesArray(t), calls |-> {}]
    ELSE IF DiskIntArray(ix) # ""
    THEN [index |-> ix, raised |-> DiskIntArray(ix), calls |-> {}]
    ELSE with(cast(ix.data), LAMBDA suffixarray :
         with(CHOOSE a \in quicksort(suffixarray, take_prefix(t),
                                     "median_of_three", 0) : TRUE, LAMBDA quicksorted :
            [index |-> File(uncast(insertion_sort(quicksorted, exact_compare(t)))),
             raised |-> "",
             calls |-> quicksort_calls(suffixarray, take_prefix(t),
                                       "median_of_three", 0)]))

\* the body of the for loop of test_sortedness at position i; s holds left,
\* errs and the positions reported on stderr
sortedness_step(t, idx, i, s) ==
    with(At(idx, i), LAMBDA right :
        IF ~key_lt(exact_compare(t), s.left, right)
        THEN [left |-> right, errs |-> s.errs + 1,
              reported |-> IF s.errs < 10 THEN Append(s.reported, i)
                           ELSE s.reported]
        ELSE [s EXCEPT !.left = right])

\* test_sortedness(textfile, indexfile): errs, the reported positions, the
\* exception raised and the exit status of the process
test_sortedness(t, ix) ==
    IF DiskBytesArray(t) # ""
    THEN [errs |-> 0, reported |-> <<>>, raised |-> DiskBytesArray(t), exit |-> 1]
    ELSE IF DiskIntArray(ix) # ""
    THEN [errs |-> 0, reported |-> <<>>, raised |-> DiskIntArray(ix), exit |-> 1]
    ELSE with(cast(ix.data), LAMBDA view :
         with(for_loop(1, Len(view), LAMBDA n, acc : sortedness_step(t, view, n, acc),
                       [left |-> 0, errs |-> 0, reported |-> <<>>]), LAMBDA final :
            [errs |-> final.errs, reported |-> final.reported, raised |-> "",
             exit |-> IF final.errs # 0 THEN 1 ELSE 0]))

\* build_suffix_array(textfile, indexfile, args): an exception ends it
build_suffix_array(t, ix, cutoff) ==
    with(collect_corpus_positions(t, ix), LAMBDA c :
        IF c.raised # ""
        THEN [index |-> c.index, raised |-> c.raised, errs |-> 0,
              reported |-> <<>>, exit |-> 1, calls |-> {}]
        ELSE with(sort_suffix_array(t, c.index, cutoff), LAMBDA s :
            IF s.raised # ""
            THEN [index |-> s.index, raised |-> s.raised, errs |-> 0,
                  reported |-> <<>>, exit |-> 1, calls |-> s.calls]
            ELSE with(test_sortedness(t, s.index), LAMBDA v :
                [index |-> s.index, raised |-> v.raised, errs |-> v.errs,
                 reported |-> v.reported, exit |-> v.exit, calls |-> s.calls])))

\* the steps of build_suffix_array during which the index file is open
BuildSteps == {"collect_corpus_positions", "quicksort", "insertion_sort",
               "test_sortedness"}

\* the index files that a build of the text can leave when the process is
\* stopped during the step named.  The integers appended by the collection
\* reach the file in order, whole (the file's buffer holds a whole number
\* of them), so that the first few of them are there; each assignment to an
\* element of the mapped array by a sort is in the file as soon as it is
\* made, and until the first one the file is as the collection left it;
\* test_sortedness does not write
interrupted(t, during) ==
    IF DiskBytesArray(t) # "" THEN {}
    ELSE with(collect_corpus_positions(t, NoFile).index, LAMBDA collected :
        IF during = "collect_corpus_positions"
        THEN { File(SubSeq(collected.data, 1, elemsize * n)) :
                 n \in 0..Len(cast(collected.data)) }
        ELSE IF DiskIntArray(collected) # "" THEN {}
        ELSE with(CHOOSE run \in quicksort_runs(
                      cast(collected.data), 0, Len(cast(collected.data)),
                      take_prefix(t), "median_of_three", 0, {}) : TRUE,
                  LAMBDA quicksorted :
            IF during = "quicksort"
            THEN {collected}
                 \cup { File(uncast(a)) :
                          a \in UNION { call_writes(c, take_prefix(t)) :
                                          c \in quicksorted.calls } }
            ELSE IF during = "insertion_sort"
            THEN with(insertion_sort_writes(quicksorted.array, exact_compare(t)),
                      LAMBDA writes :
                          {File(uncast(quicksorted.array))}
                          \cup { File(uncast(writes[n])) : n \in 1..Len(writes) })
            ELSE {File(uncast(insertion_sort(quicksorted.array,
                                             exact_compare(t))))}))

(***************************************************************************)
(* search_index.py                                                         *)
(***************************************************************************)
\* the loop body moving high below mid, as a search for any match would
search_step_drops_mid(search_key, idx, t, s) ==
    LET mid == (s.low + s.high) \div 2
        ptr == At(idx, mid)
        ptr_key == Slice(t, ptr, ptr + Len(search_key))
    IN  IF bytes_lt(ptr_key, search_key)
        THEN [s EXCEPT !.low = mid + 1]
        ELSE [s EXCEPT !.high = mid - 1]

\* the body of the while loop of binary_search_first
search_step(search_key, idx, t, s) ==
    LET mid == (s.low + s.high) \div 2
        ptr == At(idx, mid)
        ptr_key == Slice(t, ptr, ptr + Len(search_key))
    IN  IF bytes_lt(ptr_key, search_key)
        THEN [s EXCEPT !.low = mid + 1]
        ELSE [s EXCEPT !.high = mid]

\* binary_search_first(search_key, index, text): the value returned, or
\* the exception raised
binary_search_first(search_key, idx, t) ==
    with(while_loop(LAMBDA r : r.high - r.low > 1,
                    LAMBDA r : search_step(search_key, idx, t, r),
                    [low |-> 0, high |-> Len(idx) - 1]), LAMBDA final :
        IF Len(idx) = 0 THEN [value |-> -1, raised |-> "IndexError"]
        ELSE IF search_key = Slice(t, At(idx, final.low),
                                   At(idx, final.low) + Len(search_key))
        THEN [value |-> final.low, raised |-> ""]
        ELSE IF search_key = Slice(t, At(idx, final.high),
                                   At(idx, final.high) + Len(search_key))
        THEN [value |-> final.high, raised |-> ""]
        ELSE [value |-> -1, raised |-> ""])

\* the loop body printing every entry it visits, matching or not
emit_step_unfiltered(t, idx, search_key, s) ==
    [i |-> s.i + 1, emitted |-> Append(s.emitted, At(idx, s.i))]

\* the body of the for loop of search_suffix_array at i: emitted are the
\* offsets handed to print_keyword_in_context
emit_step(t, idx, search_key, s) ==
    LET word_index == At(idx, s.i)
        word_end == word_index + Len(search_key)
    IN  [i |-> s.i + 1,
         emitted |-> IF Slice(t, word_index, word_end) = search_key
                     THEN Append(s.emitted, word_index) ELSE s.emitted]

\* search_suffix_array(textfile, indexfile, args): start, the offsets
\* printed, the exception raised
search_suffix_array(t, ix, search_key, num_matches) ==
    IF DiskBytesArray(t) # ""
    THEN [start |-> -1, emitted |-> <<>>, raised |-> DiskBytesArray(t)]
    ELSE IF DiskIntArray(ix) # ""
    THEN [start |-> -1, emitted |-> <<>>, raised |-> DiskIntArray(ix)]
    ELSE with(cast(ix.data), LAMBDA view :
         with(binary_search_first(search_key, view, t), LAMBDA b :
            IF b.raised # ""
            THEN [start |-> -1, emitted |-> <<>>, raised |-> b.raised]
            ELSE [start |-> b.value,
                  emitted |-> while_loop(
                      LAMBDA r : r.i < Len(view) /\ ~(r.i - b.value >= num_matches),
                      LAMBDA r : emit_step(t, view, search_key, r),
                      [i |-> b.value, emitted |-> <<>>]).emitted,
                  raised |-> ""]))

(***************************************************************************)
(* Inputs.                                                                 *)
(***************************************************************************)
\* bytes of the texts and keys: space, 'a', 'b'
Alphabet == {32, 97, 98}

Seqs(S, n) == UNION { [1..k -> S] : k \in 0..n }

Tile(p, n) == AsSeq([k \in 1..n |-> p[((k - 1) % Len(p)) + 1]])

\* "a a a ...", " a a ...", "ab ab ...": texts in which offsets one period
\* apart share their first COMPARE_BUFFER_SIZE bytes
LongPatterns == {<<97, 32>>, <<32, 97>>, <<97, 98, 32>>}

\* "0-Z" and "\xc3\xa9a": a digit, a capital, bytes that are not ASCII
OtherTexts == {<<48, 45, 90>>, <<195, 169, 97>>}

Texts ==
    Seqs(Alphabet, MaxTextLen) \cup { Tile(p, LongTextLen) : p \in LongPatterns }
    \cup OtherTexts

distinct(s) == \A i, j \in 1..Len(s) : i # j => s[i] # s[j]

\* the offsets an index present before any build may hold: any offset of
\* a short text, the first word starts of a long one
Offsets(t) ==
    IF Len(t) <= MaxTextLen THEN 0..(Len(t) - 1)
    ELSE LET starts == cast(collect_corpus_positions(t, NoFile).index.data)
         IN  { starts[k] : k \in 1..Min(Len(starts), MaxTextLen) }

\* the index arrays a text may come with: distinct offsets inside it
IndexArrays(t) == { a \in Seqs(Offsets(t), MaxIndexLen) : distinct(a) }

\* index files cut short: an index of one integer without its last byte
CutShort(t) ==
    { File(SubSeq(uncast(a), 1, elemsize - 1)) : a \in { b \in IndexArrays(t) : Len(b) = 1 } }

Keys == Seqs(Alphabet, MaxKeyLen)

BuildCutoffs == {0, SORTING_CUTOFF}

(***************************************************************************)
(* State: the text file, the index file, and the last call with what it    *)
(* returned, printed or raised.                                            *)
(***************************************************************************)
Blank ==
    [op |-> "none", raised |-> "", exit |-> 0, errs |-> 0, reported |-> <<>>,
     start |-> -1, emitted |-> <<>>, search_key |-> <<>>, num_matches |-> 0,
     lo |-> 0, hi |-> 0, pivot |-> 0, pivotselector |-> "", cutoff |-> 0,
     calls |-> {}, pos1 |-> 0, pos2 |-> 0, value |-> 0, key |-> "",
     during |-> "", call |-> "", lo_end |-> 0, hi_end |-> 0, reads |-> {},
     stack |-> <<>>]

\* the integers of the index file
entries == cast(index.data)

Init ==
    /\ text \in Texts
    /\ index \in {NoFile} \cup CutShort(text)
                \cup { File(uncast(a)) : a \in IndexArrays(text) }
    /\ last = Blank

\* the files are at rest: nothing has run, or a step of the build has
AtRest == last.op \in {"none", "collect", "sort", "test", "build"}

\* the index has been through the sort of a build
Built == last.op \in {"sort", "build"}

\* an index array small enough to be sorted in every possible way
Small == DiskIntArray(index) = "" /\ Len(entries) <= MaxIndexLen

CollectCorpusPositions ==
    /\ AtRest
    /\ \E c \in {collect_corpus_positions(text, index)} :
           /\ index' = c.index
           /\ last' = [Blank EXCEPT !.op = "collect", !.raised = c.raised,
                                    !.exit = IF c.raised # "" THEN 1 ELSE 0]
    /\ UNCHANGED text

SortSuffixArray(cutoff) ==
    /\ AtRest
    /\ \E s \in {sort_suffix_array(text, index, cutoff)} :
           /\ index' = s.index
           /\ last' = [Blank EXCEPT !.op = "sort", !.raised = s.raised,
                                    !.exit = IF s.raised # "" THEN 1 ELSE 0]
    /\ UNCHANGED text

TestSortedness ==
    /\ AtRest
    /\ \E v \in {test_sortedness(text, index)} :
           last' = [Blank EXCEPT !.op = "test", !.raised = v.raised,
                                !.errs = v.errs, !.reported = v.reported,
                                !.exit = v.exit]
    /\ UNCHANGED <<text, index>>

BuildSuffixArray(cutoff) ==
    /\ AtRest
    /\ \E b \in {build_suffix_array(text, index, cutoff)} :
           /\ index' = b.index
           /\ last' = [Blank EXCEPT !.op = "build", !.raised = b.raised,
                                    !.errs = b.errs, !.reported = b.reported,
                                    !.exit = b.exit]
    /\ UNCHANGED text

SearchSuffixArray(search_key, num_matches) ==
    /\ Built
    /\ \E r \in {search_suffix_array(text, index, search_key, num_matches)} :
           last' = [Blank EXCEPT !.op = "search", !.raised = r.raised,
                                !.start = r.start, !.emitted = r.emitted,
                                !.search_key = search_key,
                                !.num_matches = num_matches,
                                !.exit = IF r.raised # "" THEN 1 ELSE 0]
    /\ UNCHANGED <<text, index>>

\* binary_search_first called on the integers of the index file
BinarySearchFirst(search_key) ==
    /\ Built
    /\ index.exists
    /\ \E b \in {binary_search_first(search_key, entries, text)} :
           last' = [Blank EXCEPT !.op = "binary_search_first",
                                !.raised = b.raised, !.start = b.value,
                                !.search_key = search_key]
    /\ UNCHANGED <<text, index>>

\* partition called on the index array with the bounded key
Partition(lo, hi, pivotselector) ==
    /\ last.op = "none"
    /\ Small
    /\ \E r \in partition(entries, lo, hi, take_prefix(text), pivotselector) :
          /\ index' = File(uncast(r.array))
          /\ last' = [Blank EXCEPT !.op = "partition", !.lo = lo, !.hi = hi,
                                   !.pivot = r.pivot,
                                   !.pivotselector = pivotselector]
    /\ UNCHANGED text

\* quicksort called on the index array with the bounded key
Quicksort(pivotselector, cutoff) ==
    /\ last.op = "none"
    /\ Small
    /\ \E a \in quicksort(entries, take_prefix(text), pivotselector, cutoff) :
          /\ index' = File(uncast(a))
          /\ last' = [Blank EXCEPT !.op = "quicksort", !.cutoff = cutoff,
                                   !.pivotselector = pivotselector]
    /\ UNCHANGED text

Next ==
    \/ CollectCorpusPositions
    \/ \E cutoff \in BuildCutoffs : SortSuffixArray(cutoff)
    \/ TestSortedness
    \/ \E cutoff \in BuildCutoffs : BuildSuffixArray(cutoff)
    \/ \E search_key \in Keys, num_matches \in 0..MaxMatches :
          SearchSuffixArray(search_key, num_matches)
    \/ \E search_key \in Keys : BinarySearchFirst(search_key)
    \/ \E lo \in 0..(Len(entries) - 1) : \E hi \in (lo + 1)..Len(entries) :
          \E pivotselector \in PivotSelectors : Partition(lo, hi, pivotselector)
    \/ \E pivotselector \in PivotSelectors : \E cutoff \in {0, Len(entries)} :
          Quicksort(pivotselector, cutoff)

Spec == Init /\ [][Next]_vars

(***************************************************************************)
(* sort.py run as a program (--test): arrays of the integers 0..size-1 are *)
(* created in random order, sorted with the counting key, and checked.     *)
(***************************************************************************)
\* randomness in hundredths: the values test_sorting_algorithm uses
Randomness == {0, 25, 100}

\* the body of the shuffling loop at position n, on the set of arrays the
\* draws so far can have produced: random.random() < randomness never holds
\* for randomness 0.0 and always holds for 1.0
shuffle_step(arrays, n, size, randomness) ==
    (IF randomness = 100 THEN {} ELSE arrays)
    \cup (IF randomness = 0 THEN {}
          ELSE { swap(a, n, other) : a \in arrays, other \in n..(size - 1) })

\* create_partially_shuffled_array(size, randomness, path): the arrays it
\* may leave in the file
create_partially_shuffled_array(size, randomness) ==
    for_loop(0, size, LAMBDA n, acc : shuffle_step(acc, n, size, randomness),
             { AsSeq([k \in 1..size |-> k - 1]) })

\* check_sorted_array(array, key): the assertion holds for every position
check_sorted_array(array, key) ==
    \A i \in 1..(Len(array) - 1) : key_lt(key, At(array, i - 1), At(array, i))

\* check_array_contents(array, expected): both assertions hold
check_array_contents(array, expected) ==
    /\ Len(array) = Len(expected)
    /\ \A i \in 1..Len(array) : array[i] = expected[i]

\* the array file is created at the start of a test and after each sort
CreatePartiallyShuffledArray(size, randomness) ==
    /\ ~index.exists \/ last.op # "none"
    /\ \E a \in create_partially_shuffled_array(size, randomness) :
          index' = File(uncast(a))
    /\ last' = Blank
    /\ UNCHANGED text

\* sort(numbers) of the main function with algorithm insertion
InsertionSort ==
    /\ last.op = "none"
    /\ DiskIntArray(index) = ""
    /\ index' = File(uncast(insertion_sort(entries, ComparableWithCounter)))
    /\ last' = [Blank EXCEPT !.op = "insertion_sort"]
    /\ UNCHANGED text

\* sort(numbers) of the main function with algorithm quicksort
QuicksortNumbers(pivotselector, cutoff) ==
    /\ last.op = "none"
    /\ DiskIntArray(index) = ""
    /\ \E a \in quicksort(entries, ComparableWithCounter, pivotselector, cutoff) :
          index' = File(uncast(a))
    /\ last' = [Blank EXCEPT !.op = "quicksort", !.cutoff = cutoff,
                             !.pivotselector = pivotselector]
    /\ UNCHANGED text

InitSort ==
    /\ text = <<>>
    /\ index = NoFile
    /\ last = Blank

NextSort ==
    \/ \E size \in 1..MaxSize : \E randomness \in Randomness :
          CreatePartiallyShuffledArray(size, randomness)
    \/ InsertionSort
    \/ \E pivotselector \in PivotSelectors : \E cutoff \in 0..(MaxSize + 1) :
          QuicksortNumbers(pivotselector, cutoff)

SpecSort == InitSort /\ [][NextSort]_vars

(***************************************************************************)
(* build_index.py run as a program on a text that has no index yet, with   *)
(* its --cutoff option; the process may be stopped before its end, and the *)
(* program is then run again.                                              *)
(***************************************************************************)
\* the process is stopped during a step of the build
Interrupt(during) ==
    /\ last.op = "none"
    /\ \E leftover \in interrupted(text, during) :
          /\ index' = leftover
          /\ last' = [Blank EXCEPT !.op = "interrupt", !.during = during]
    /\ UNCHANGED text

\* main(args) run to its end; calls are the calls the quicksort pass has
\* made, during the step in which the run before was stopped
Main(cutoff) ==
    /\ last.op \in {"none", "interrupt"}
    /\ \E b \in {build_suffix_array(text, index, cutoff)} :
           /\ index' = b.index
           /\ last' = [Blank EXCEPT !.op = "main", !.raised = b.raised,
                                    !.cutoff = cutoff, !.calls = b.calls,
                                    !.during = last.during,
                                    !.errs = b.errs, !.reported = b.reported,
                                    !.exit = b.exit]
    /\ UNCHANGED text

InitMain ==
    /\ text \in Texts
    /\ index = NoFile
    /\ last = Blank

NextMain ==
    \/ \E during \in BuildSteps : Interrupt(during)
    \/ \E cutoff \in BuildCutoffs : Main(cutoff)

SpecMain == InitMain /\ [][NextMain]_vars

(***************************************************************************)
(* The exact comparison on its own: the function inside exact_compare      *)
(* called on two positions of a text that has been opened.                 *)
(***************************************************************************)
\* the positions the comparison is called on: every offset of the text, its
\* length, and one past it
Positions(t) == 0..(Len(t) + 1)

ExactCompare(pos1, pos2) ==
    /\ last.op = "none"
    /\ DiskBytesArray(text) = ""
    /\ last' = [Blank EXCEPT !.op = "exact_compare", !.pos1 = pos1, !.pos2 = pos2,
                             !.value = exact_key(text, pos1, pos2)]
    /\ UNCHANGED <<text, index>>

InitCompare ==
    /\ text \in Texts
    /\ index = NoFile
    /\ last = Blank

NextCompare == \E pos1, pos2 \in Positions(text) : ExactCompare(pos1, pos2)

SpecCompare == InitCompare /\ [][NextCompare]_vars

(***************************************************************************)
(* median_of_three on its own: called on a subrange of an index array with *)
(* each of the sort keys of the program.                                   *)
(***************************************************************************)
\* the sort keys: the counting key of the sorting tests, the bounded key and
\* the exact key of sort_suffix_array
SortKeys(t) == {ComparableWithCounter, take_prefix(t), exact_compare(t)}

MedianOfThree(lo, hi, key) ==
    /\ last.op = "none"
    /\ DiskIntArray(index) = ""
    /\ last' = [Blank EXCEPT !.op = "median_of_three", !.lo = lo, !.hi = hi,
                             !.key = key.kind,
                             !.pivot = median_of_three(entries, lo, hi, key)]
    /\ UNCHANGED <<text, index>>

InitPivot ==
    /\ text \in Texts
    /\ index \in { File(uncast(a)) : a \in IndexArrays(text) }
    /\ last = Blank

NextPivot ==
    \E lo \in 0..(Len(entries) - 1) : \E hi \in (lo + 1)..Len(entries) :
        \E key \in SortKeys(text) : MedianOfThree(lo, hi, key)

SpecPivot == InitPivot /\ [][NextPivot]_vars

(***************************************************************************)
(* quicksort step by step: the calls of quicksort_subarray still to be     *)
(* made are kept on a stack of subranges, the next one on top; a step runs *)
(* the body of one call and puts its two recursive calls on the stack, the *)
(* left one on top.                                                        *)
(***************************************************************************)
\* the keys the program calls quicksort with: the counting key in the
\* sorting tests, the bounded key in sort_suffix_array
QuicksortKeys(t) == {ComparableWithCounter, take_prefix(t)}

\* the sort key of the kind named
sort_key(t, kind) == CHOOSE key \in QuicksortKeys(t) : key.kind = kind

Frame(lo, hi) == [lo |-> lo, hi |-> hi]

\* the call of quicksort_subarray on [lo, hi) is being run in a quicksort
\* with the arguments of the last step
Running(lo, hi) ==
    [Blank EXCEPT !.op = "quicksort_subarray", !.key = last.key,
                  !.pivotselector = last.pivotselector, !.cutoff = last.cutoff,
                  !.lo = lo, !.hi = hi, !.stack = Tail(last.stack)]

\* quicksort(array, key, pivotselector, cutoff) called on the index array:
\* quicksort_subarray is to be called on the whole of it
CallQuicksort(key, pivotselector, cutoff) ==
    /\ last.op = "none"
    /\ DiskIntArray(index) = ""
    /\ last' = [Blank EXCEPT !.op = "quicksort", !.key = key.kind,
                             !.pivotselector = pivotselector, !.cutoff = cutoff,
                             !.stack = <<Frame(0, Len(entries))>>]
    /\ UNCHANGED <<text, index>>

\* the body of the call of quicksort_subarray on top of the stack
QuicksortSubarray ==
    /\ last.op \in {"quicksort", "quicksort_subarray"}
    /\ last.stack # <<>>
    /\ \E frame \in {Head(last.stack)}, key \in {sort_key(text, last.key)} :
          IF frame.hi - frame.lo = 0
          THEN /\ index' = index
               /\ last' = [Running(frame.lo, frame.hi) EXCEPT !.call = "return"]
          ELSE IF last.cutoff >= frame.hi - frame.lo
          THEN /\ index' = File(uncast(builtin_timsort(entries, frame.lo, frame.hi, key)))
               /\ last' = [Running(frame.lo, frame.hi) EXCEPT !.call = "builtin_timsort"]
          ELSE \E r \in partition(entries, frame.lo, frame.hi, key, last.pivotselector) :
                  /\ index' = File(uncast(r.array))
                  /\ last' = [Running(frame.lo, frame.hi) EXCEPT
                                 !.call = "partition", !.pivot = r.pivot,
                                 !.lo_end = r.lo, !.hi_end = r.hi,
                                 !.reads = partition_reads(entries, frame.lo, frame.hi,
                                                           key, r.chosen),
                                 !.stack = <<Frame(frame.lo, r.pivot),
                                             Frame(r.pivot + 1, frame.hi)>>
                                           \o Tail(last.stack)]
    /\ UNCHANGED text

InitQuicksort ==
    /\ text \in Texts
    /\ index \in { File(uncast(a)) : a \in IndexArrays(text) }
    /\ last = Blank

NextQuicksort ==
    \/ \E key \in QuicksortKeys(text) : \E pivotselector \in PivotSelectors :
          \E cutoff \in 0..(Len(entries) + 1) :
              CallQuicksort(key, pivotselector, cutoff)
    \/ QuicksortSubarray

SpecQuicksort == InitQuicksort /\ [][NextQuicksort]_vars

(***************************************************************************)
(* Properties.                                                             *)
(***************************************************************************)
\* the full suffix of the text at an offset
suffix(t, pos) == SubSeq(t, pos + 1, Len(t))

\* the suffix at x is strictly less than the suffix at y
suffix_lt(t, x, y) == bytes_lt(suffix(t, x), suffix(t, y))

\* positions 1 <= i < len(array) whose pair (array[i-1], array[i]) is not
\* strictly ascending in suffix order
violations(t, array) ==
    { i \in 1..(Len(array) - 1) : ~suffix_lt(t, At(array, i - 1), At(array, i)) }

\* C1: after sort_suffix_array has run, the full suffix at every index entry
\* is strictly less than the full suffix at the next one
C1_SortedIndexStrictlyAscending ==
    last.op = "sort" => violations(text, entries) = {}

\* a sort has run on three entries of a long text whose bounded keys tie
C1_Witness ==
    /\ last.op = "sort" /\ last.raised = ""
    /\ Len(entries) = MaxIndexLen
    /\ Len(text) > COMPARE_BUFFER_SIZE
    /\ prefix_key(text, entries[1]) = prefix_key(text, entries[2])

\* C2: a build that ran through all three steps ends with test_sortedness
\* reporting no ordering error and the process exiting with status 0
C2_BuildReportsNoViolation ==
    (last.op = "build" /\ last.raised = "") => (last.errs = 0 /\ last.exit = 0)

\* C3: test_sortedness counts exactly the adjacent pairs of the index that
\* are not strictly ascending in suffix order, and exits non-zero exactly
\* when it has counted one
C3_TestCountsAdjacentViolations ==
    (last.op = "test" /\ last.raised = "") =>
        /\ last.errs = Cardinality(violations(text, entries))
        /\ (last.exit # 0) <=> (last.errs > 0)

\* the offsets where a word starts: an alphanumeric byte at the start of
\* the text or after a byte that is not alphanumeric
word_starts(t) ==
    { i \in 0..(Len(t) - 1) : isalnum(At(t, i)) /\ (i = 0 \/ ~isalnum(At(t, i - 1))) }

\* C4: after collect_corpus_positions the index holds exactly the word
\* starts of the text, each once, in ascending order
C4_IndexHoldsWordStartsAscending ==
    last.op = "collect" =>
        /\ { entries[k] : k \in 1..Len(entries) } = word_starts(text)
        /\ Len(entries) = Cardinality(word_starts(text))
        /\ \A k \in 1..(Len(entries) - 1) : entries[k] < entries[k + 1]

\* a collection has found several words in a text that starts with a byte that
\* is not alphanumeric
C4_Witness ==
    /\ last.op = "collect" /\ last.raised = ""
    /\ Len(entries) >= 2
    /\ ~isalnum(text[1])

\* the suffix at an offset has the key as a byte prefix
has_prefix(t, pos, search_key) ==
    /\ pos + Len(search_key) <= Len(t)
    /\ \A k \in 1..Len(search_key) : t[pos + k] = search_key[k]

\* the positions of the index whose entry has the key as a prefix
matches(t, array, search_key) ==
    { i \in 0..(Len(array) - 1) : has_prefix(t, At(array, i), search_key) }

\* the lowest position of a non-empty set of positions
lowest(S) == CHOOSE i \in S : \A j \in S : i <= j

\* C5: on a non-empty sorted index binary_search_first returns the lowest
\* position whose entry has the key as a prefix, and -1 when there is none
C5_BinarySearchReturnsLowestMatch ==
    (last.op = "binary_search_first" /\ Len(entries) > 0) =>
        /\ last.raised = ""
        /\ last.start = IF matches(text, entries, last.search_key) = {} THEN -1
                        ELSE lowest(matches(text, entries, last.search_key))

\* a search has found, past the first position of a full index, a key that
\* two entries start with
C5_Witness ==
    /\ last.op = "binary_search_first"
    /\ Len(entries) = MaxIndexLen
    /\ last.start > 0
    /\ Cardinality(matches(text, entries, last.search_key)) >= 2

\* the offsets of the matching entries, in index order
RECURSIVE matching_offsets(_, _, _)
matching_offsets(t, array, search_key) ==
    IF array = <<>> THEN <<>>
    ELSE IF has_prefix(t, array[1], search_key)
    THEN <<array[1]>> \o matching_offsets(t, Tail(array), search_key)
    ELSE matching_offsets(t, Tail(array), search_key)

\* C6: on a sorted index search_suffix_array prints the offsets of the
\* entries that have the key as a prefix, in index order, the first
\* num_matches of them; it prints nothing when there is none
C6_SearchEmitsFirstMatches ==
    (last.op = "search" /\ last.raised = "") =>
        /\ last.emitted = SubSeq(matching_offsets(text, entries, last.search_key), 1,
                                 Min(last.num_matches,
                                     Len(matching_offsets(text, entries, last.search_key))))
        /\ (last.start = -1) => (last.emitted = <<>>)

\* a search has printed num_matches offsets and left a further match out
C6_Witness ==
    /\ last.op = "search" /\ last.raised = ""
    /\ last.num_matches > 0
    /\ Len(last.emitted) = last.num_matches
    /\ Len(matching_offsets(text, entries, last.search_key)) > last.num_matches
    /\ last.start > 0

\* C7: build and search end without an exception on a 0-byte text, on an
\* index of 0 entries and on an index of 1 entry
C7_DegenerateSizesDoNotRaise ==
    (/\ last.op \in {"build", "search", "binary_search_first"}
     /\ (Len(text) = 0 \/ Len(entries) <= 1)) => last.raised = ""

\* what the call partition(before, lo, hi, key, pivotselector) returning p
\* and leaving after is to satisfy
partitioned(before, after, lo, hi, p, key, pivotselector) ==
    /\ Len(after) = Len(before)
    /\ p \in lo..(hi - 1)
    /\ \A k \in lo..(p - 1) : key_le(key, At(after, k), At(after, p))
    /\ \A k \in p..(hi - 1) : key_ge(key, At(after, k), At(after, p))
    /\ At(after, p) \in { At(before, chosen) :
                           chosen \in pivotselect(pivotselector, before, lo, hi, key) }
    /\ \A k \in 0..(Len(before) - 1) :
          (k < lo \/ k >= hi) => At(after, k) = At(before, k)

\* C8: a call of partition on a non-empty subrange leaves keys not greater
\* than the pivot's left of the returned position, keys not less at and
\* right of it, the selected pivot value at it, and the rest as it was
C8_PartitionPostcondition ==
    [][last'.op = "partition" =>
          partitioned(entries, cast(index'.data), last'.lo, last'.hi, last'.pivot,
                      take_prefix(text), last'.pivotselector)]_vars

\* a partition of a full array whose bounded keys tie has put the pivot
\* strictly inside the subrange
C8_Witness ==
    /\ last.op = "partition"
    /\ last.hi - last.lo = MaxIndexLen
    /\ last.lo < last.pivot /\ last.pivot < last.hi - 1
    /\ Len(text) > COMPARE_BUFFER_SIZE
    /\ prefix_key(text, entries[1]) = prefix_key(text, entries[2])

\* no two entries of the array have the same bounded key
keys_distinct(t, array) ==
    \A i, j \in 1..Len(array) :
        i # j => prefix_key(t, array[i]) # prefix_key(t, array[j])

\* of the two cutoffs compared, 0 and the length of the array, the one
\* that was not used
other_cutoff(cutoff, array) == IF cutoff = 0 THEN Len(array) ELSE 0

\* the array a quicksort call has left is the one, and the only one, the
\* call with the other cutoff leaves
same_with_other_cutoff(before, after, t, pivotselector, cutoff) ==
    quicksort(before, take_prefix(t), pivotselector, other_cutoff(cutoff, before))
        = {after}

\* the two passes of sort_suffix_array, the bounded quicksort and the exact
\* insertion_sort, take the array to one final array with the cutoff the
\* quicksort call had and with the other one: the array the call has left
\* and every array the call with the other cutoff leaves become the same
\* array in the exact pass
same_after_exact_pass(before, after, t, pivotselector, cutoff) ==
    \A other \in quicksort(before, take_prefix(t), pivotselector,
                           other_cutoff(cutoff, before)) :
        insertion_sort(other, exact_compare(t)) = insertion_sort(after, exact_compare(t))

\* C9: for the same index and text, sorting with cutoff = length of the
\* array and with cutoff = 0 leaves identical final arrays: the quicksort
\* pass run with either cutoff and followed by the exact insertion_sort
\* pass ends in one array, and sort_suffix_array called with cutoff =
\* length leaves the index file its call with cutoff 0, or any other, has
\* left; after the quicksort pass alone the arrays are already the same when
\* no two entries have the same bounded key
C9_CutoffsAgree ==
    [][/\ last'.op = "quicksort" =>
             /\ same_after_exact_pass(entries, cast(index'.data), text,
                                      last'.pivotselector, last'.cutoff)
             /\ keys_distinct(text, entries) =>
                   same_with_other_cutoff(entries, cast(index'.data), text,
                                          last'.pivotselector, last'.cutoff)
       /\ last'.op = "sort" =>
             sort_suffix_array(text, index, Len(entries)).index = index']_vars

\* the built-in sort has been handed a full array of entries of a long
\* text whose bounded keys are all equal, and has left them in an order
\* that the exact pass changes
C9_Witness ==
    /\ last.op = "quicksort"
    /\ Len(entries) = MaxIndexLen
    /\ last.cutoff = Len(entries)
    /\ Len(text) > COMPARE_BUFFER_SIZE
    /\ \A i, j \in 1..Len(entries) :
          prefix_key(text, entries[i]) = prefix_key(text, entries[j])
    /\ insertion_sort(entries, exact_compare(text)) # entries

\* C10: the arrays of the sorting tests hold each of 0..n-1 once, and after
\* insertion_sort or quicksort, whatever the pivot selector and the cutoff,
\* they hold them in ascending order, so that both checks of the test pass
C10_SortsPermutations ==
    index.exists =>
        /\ { entries[k] : k \in 1..Len(entries) } = 0..(Len(entries) - 1)
        /\ last.op \in {"insertion_sort", "quicksort"} =>
              /\ \A k \in 1..Len(entries) : entries[k] = k - 1
              /\ check_sorted_array(entries, ComparableWithCounter)
              /\ check_array_contents(entries, sorted(entries, ComparableWithCounter))

\* a quicksort with a random pivot has sorted an array of the largest size,
\* partitioning the whole range and handing ranges of two to the built-in sort
C10_Witness ==
    /\ last.op = "quicksort"
    /\ last.pivotselector = "random_pivot"
    /\ last.cutoff = 2
    /\ Len(entries) = MaxSize
    /\ \A k \in 1..Len(entries) : entries[k] = k - 1

\* C11: in a build run with cutoff c the quicksort pass hands every subrange
\* of at most c entries to the built-in sort without partitioning it, and
\* partitions only subranges of more than c entries
C11_BuildAppliesCutoff ==
    (last.op = "main" /\ last.raised = "") =>
        /\ \A c \in last.calls :
              /\ c.call = "partition" => c.hi - c.lo > last.cutoff
              /\ c.call = "builtin_timsort" => c.hi - c.lo <= last.cutoff
        /\ Len(entries) \in 1..last.cutoff =>
              \A c \in last.calls :
                  c.call = "builtin_timsort" /\ c.lo = 0 /\ c.hi = Len(entries)
        /\ Len(entries) > 0 => last.calls # {}

\* a comes before b in the lexicographic order of byte strings: they agree
\* on their first k bytes and then a ends while b goes on, or a has the
\* smaller byte
lex_lt(a, b) ==
    \E k \in 0..Min(Len(a), Len(b)) :
        /\ SubSeq(a, 1, k) = SubSeq(b, 1, k)
        /\ \/ k = Len(a) /\ k < Len(b)
           \/ k < Len(a) /\ k < Len(b) /\ a[k + 1] < b[k + 1]

\* C12: called on two offsets inside the text the exact comparison returns,
\* with 0 only for equal offsets, a negative value exactly when the suffix
\* at the first comes before the suffix at the second in lexicographic
\* order (a strict prefix first), and a positive value exactly when it
\* comes after
C12_ExactCompareIsSuffixOrder ==
    (/\ last.op = "exact_compare"
     /\ last.pos1 < Len(text) /\ last.pos2 < Len(text)) =>
        /\ last.value # Forever
        /\ last.value = 0 <=> last.pos1 = last.pos2
        /\ last.value < 0 <=> lex_lt(suffix(text, last.pos1), suffix(text, last.pos2))
        /\ last.value > 0 <=> lex_lt(suffix(text, last.pos2), suffix(text, last.pos1))

\* the comparison has gone past the first buffers, which were equal, and
\* has put the suffix that is a strict prefix of the other first
C12_Witness ==
    /\ last.op = "exact_compare"
    /\ last.pos2 < last.pos1 /\ last.pos1 < Len(text)
    /\ prefix_key(text, last.pos1) = prefix_key(text, last.pos2)
    /\ last.value = -1

\* the three positions median_of_three samples: first, middle and last
samples(lo, hi) == <<lo, (lo + hi - 1) \div 2, hi - 1>>

\* the key of the pair named in the last call
last_key ==
    CHOOSE key \in SortKeys(text) : key.kind = last.key

\* C13: on a non-empty subrange median_of_three returns one of the three
\* positions it samples, and the key there is not less than the key at one
\* of the other two samples and not greater than the key at the remaining
\* one, equal keys included
C13_MedianOfThreeReturnsMiddle ==
    last.op = "median_of_three" =>
        /\ last.pivot # None
        /\ \E i, j, k \in 1..3 :
              /\ {i, j, k} = 1..3
              /\ last.pivot = samples(last.lo, last.hi)[i]
              /\ key_ge(last_key, At(entries, samples(last.lo, last.hi)[i]),
                                  At(entries, samples(last.lo, last.hi)[j]))
              /\ key_le(last_key, At(entries, samples(last.lo, last.hi)[i]),
                                  At(entries, samples(last.lo, last.hi)[k]))

\* the middle position has been returned for three entries of which the
\* middle and the last have the same bounded key and the first a smaller one
C13_Witness ==
    /\ last.op = "median_of_three" /\ last.key = "prefix"
    /\ last.hi - last.lo = 3
    /\ last.pivot = last.lo + 1
    /\ prefix_key(text, entries[2]) = prefix_key(text, entries[3])
    /\ prefix_key(text, entries[1]) # prefix_key(text, entries[2])

\* C14: a build run after a build of the same text was stopped, during the
\* collection, either sort or the test, leaves the index file that a build
\* of the text leaves when there is no index file beforehand
C14_RebuildIgnoresLeftover ==
    (last.op = "main" /\ last.during # "") =>
        index = build_suffix_array(text, NoFile, last.cutoff).index

\* a build has been run again, and has run through, after a build of a
\* long text was stopped during the insertion sort
C14_Witness ==
    /\ last.op = "main" /\ last.raised = ""
    /\ last.during = "insertion_sort"
    /\ Len(text) > COMPARE_BUFFER_SIZE
    /\ Len(entries) > MaxIndexLen

\* what is left to do for the calls on a stack: one for each call and two
\* for each entry of its subrange
RECURSIVE remaining(_)
remaining(stack) ==
    IF stack = <<>> THEN 0
    ELSE 2 * (Head(stack).hi - Head(stack).lo) + 1 + remaining(Tail(stack))

\* the last step was a call of partition on [lo, hi)
partitioned_subrange ==
    last.op = "quicksort_subarray" /\ last.call = "partition"

\* the position partition returned is inside [lo, hi) and the two recursive
\* calls are on [lo, p) and [p + 1, hi), both smaller than [lo, hi)
returns_inside ==
    /\ last.lo <= last.pivot /\ last.pivot < last.hi
    /\ Len(last.stack) >= 2
    /\ last.stack[1] = Frame(last.lo, last.pivot)
    /\ last.stack[2] = Frame(last.pivot + 1, last.hi)
    /\ \A n \in 1..2 :
          /\ 0 <= last.stack[n].hi - last.stack[n].lo
          /\ last.stack[n].hi - last.stack[n].lo < last.hi - last.lo

\* the values the scan pointers have taken: lo from lo + 1 upwards, hi from
\* hi - 1 downwards
pointer_values ==
    [lo |-> (last.lo + 1)..last.lo_end, hi |-> last.hi_end..(last.hi - 1)]

\* C15 as stated: partition on a non-empty [lo, hi) returns a position
\* inside it, both recursive subranges are smaller, and neither scan pointer
\* ever takes a value outside [lo, hi)
C15_PointersNeverLeaveSubrange ==
    partitioned_subrange =>
        /\ returns_inside
        /\ pointer_values.lo \cup pointer_values.hi \subseteq last.lo..(last.hi - 1)

\* C15: quicksort comes to an end for each sort key, pivot selector and
\* cutoff from 0 up: the calls still to be made are on subranges of the
\* array, every call of quicksort_subarray leaves less to do than there was,
\* and each call of partition on a non-empty [lo, hi) returns a position
\* inside it, so that both recursive calls are on smaller subranges; the
\* scan pointers read the array inside [lo, hi) only, the right one staying
\* inside [lo, hi) and the left one inside [lo + 1, hi]
C15_QuicksortTerminates ==
    /\ [](\A n \in 1..Len(last.stack) :
              /\ 0 <= last.stack[n].lo
              /\ last.stack[n].lo <= last.stack[n].hi
              /\ last.stack[n].hi <= Len(entries))
    /\ [][QuicksortSubarray => remaining(last'.stack) < remaining(last.stack)]_vars
    /\ [](partitioned_subrange =>
            /\ returns_inside
            /\ last.reads \subseteq last.lo..(last.hi - 1)
            /\ pointer_values.hi \subseteq last.lo..(last.hi - 1)
            /\ pointer_values.lo \subseteq (last.lo + 1)..last.hi)

\* partition has been called on a subrange of three entries whose pivot,
\* drawn at random, has the largest key: the left pointer has come to rest
\* at hi, the right one never moved, and the position returned is the last
C15_Witness ==
    /\ partitioned_subrange
    /\ last.hi - last.lo = 3
    /\ last.lo_end = last.hi /\ last.hi_end = last.hi - 1
    /\ last.pivot = last.hi - 1
    /\ last.reads = (last.lo + 1)..(last.hi - 1)
    /\ last.pivotselector = "random_pivot"

=============================================================================
